---- MODULE Spec2Model ----
(***************************************************************************)
(* Model of quickstep::SimpleSocketConnection                              *)
(* (src/cli/simple_socket/SimpleSocketConnection.hpp).                     *)
(*                                                                         *)
(* A std::uint64_t is modelled by its eight bytes, most significant byte   *)
(* first, so that the full 64-bit range, the byte swaps of htonl/ntohl and *)
(* the wrap-around of 64-bit arithmetic are all explicit.  The socket is a *)
(* byte stream the peer has sent (stream), a read position (pos) and the   *)
(* log of the write() calls of the last sendResponse (writes).             *)
(***************************************************************************)
EXTENDS Integers, Sequences, FiniteSets, TLC

VARIABLES host,                  \* byte order of the machine the code runs on
          stream,                \* bytes the peer delivers before closing
          sent_record,           \* {Record the peer encoded}, or NoRecord
          pos,                   \* bytes consumed from the socket so far
          code_mem,              \* receiveUInt64: bytes stored at &code so far
          request_data_length_,  \* std::uint64_t member (Uninit until line 86)
          request_data_,         \* "null" or "allocated"
          buffer,                \* bytes stored at request_data_ so far
          request_,              \* SimpleSocketContent request_
          error_message_,        \* NoError or the stored what() string
          pc,                    \* position of the constructor / object life
          oob_read,              \* a read outside [0, total_length) happened
          read_failed,           \* a read() returned zero or less
          malloc_failed,         \* std::malloc returned NULL
          short_read,            \* a read() returned fewer bytes than asked
          last_response,         \* argument of the last sendResponse
          writes,                \* write() calls of the last sendResponse
          write_returns,         \* what each of those write() calls returned
          frees,                 \* std::free calls
          shutdowns,             \* shutdown(socket_fd_) calls
          closes                 \* close(socket_fd_) calls

vars == <<host, stream, sent_record, pos, code_mem, request_data_length_,
          request_data_, buffer, request_, error_message_, pc, oob_read,
          read_failed, malloc_failed, short_read,
          last_response, writes, write_returns, frees, shutdowns, closes>>

-----------------------------------------------------------------------------
(* Bounds of the model. *)

\* Largest number of fields of a Record the peer or the caller encodes.
MaxFields == 2

-----------------------------------------------------------------------------
(* 64-bit unsigned integers as 8 bytes, most significant first. *)

Byte == 0..255

Rev(s) == [i \in 1..Len(s) |-> s[Len(s) + 1 - i]]

Zero64 == <<0, 0, 0, 0, 0, 0, 0, 0>>
Max64 == <<255, 255, 255, 255, 255, 255, 255, 255>>

\* The uint64_t with value n, for 0 <= n < 2^31.
U64(n) == <<0, 0, 0, 0, n \div 16777216, (n \div 65536) % 256,
            (n \div 256) % 256, n % 256>>

\* TRUE when the value fits the model's integers (below 2^31).
IsSmall(w) == /\ \A i \in 1..4 : w[i] = 0
              /\ w[5] < 128

\* The value of w as an integer; used only where IsSmall(w).
Nat64(w) == w[5] * 16777216 + w[6] * 65536 + w[7] * 256 + w[8]

RECURSIVE AddCarry(_, _, _, _)
AddCarry(a, b, i, c) ==
  IF i = 0 THEN <<>>
  ELSE LET s == a[i] + b[i] + c
       IN  Append(AddCarry(a, b, i - 1, s \div 256), s % 256)

\* a + b in std::uint64_t / pointer arithmetic: modulo 2^64.
Add64(a, b) == AddCarry(a, b, 8, 0)

RECURSIVE LessFrom(_, _, _)
LessFrom(a, b, i) ==
  IF i > 8 THEN FALSE
  ELSE IF a[i] # b[i] THEN a[i] < b[i]
  ELSE LessFrom(a, b, i + 1)

\* a < b on std::uint64_t.
Less64(a, b) == LessFrom(a, b, 1)

-----------------------------------------------------------------------------
(* Byte order. *)

Hosts == {"little", "big"}

\* ntohl / htonl of <arpa/inet.h> on a 32-bit value (4 bytes, most significant
\* first): a byte swap on a little-endian host, the identity on a big-endian
\* one.
ntohl(h, x) == IF h = "little" THEN Rev(x) ELSE x
htonl(h, x) == IF h = "little" THEN Rev(x) ELSE x

\* The uint64_t value held by eight bytes of memory at increasing addresses
\* (*size_ptr, and &code after read()).
LoadU64(h, mem) == IF h = "little" THEN Rev(mem) ELSE mem

\* The eight bytes of memory, at increasing addresses, of a uint64_t value
\* (&code handed to write()).
StoreU64(h, value) == IF h = "little" THEN Rev(value) ELSE value

\* Ntohll that converts the two halves but leaves them in place.
NtohllSameOrder(h, code) ==
  LET lo32 == SubSeq(code, 5, 8)
      hi32 == SubSeq(code, 1, 4)
  IN  ntohl(h, hi32) \o ntohl(h, lo32)

Ntohll(h, code) ==
  LET lo32 == SubSeq(code, 5, 8)
      hi32 == SubSeq(code, 1, 4)
  IN  ntohl(h, lo32) \o ntohl(h, hi32)

\* Htonll that converts the two halves but leaves them in place.
HtonllSameOrder(h, code) ==
  LET lo32 == SubSeq(code, 5, 8)
      hi32 == SubSeq(code, 1, 4)
  IN  htonl(h, hi32) \o htonl(h, lo32)

Htonll(h, code) ==
  LET lo32 == SubSeq(code, 5, 8)
      hi32 == SubSeq(code, 1, 4)
  IN  htonl(h, lo32) \o htonl(h, hi32)

\* The bytes writeUInt64(value) hands to write().
writeUInt64(h, value) == StoreU64(h, Htonll(h, value))

\* The value receiveUInt64 returns once eight bytes are stored at &code.
receiveUInt64(h, mem) == Ntohll(h, LoadU64(h, mem))

-----------------------------------------------------------------------------
(* SimpleSocketContent: the Record.  A field is a std::string key and a    *)
(* StringPiece value, a (pointer, size) pair that is not copied: the       *)
(* pointer is modelled by the bytes of the object it points into (base)    *)
(* and an offset from its start.                                           *)

StringPiece(base, off, size) == [base |-> base, off |-> off, size |-> size]

\* The StringPiece of a whole caller-owned std::string.
PieceOf(str) == StringPiece(str, Zero64, U64(Len(str)))

\* The bytes a StringPiece designates when it lies inside its object.
InPiece(p) == /\ IsSmall(p.off)
              /\ IsSmall(p.size)
              /\ Nat64(p.off) + Nat64(p.size) <= Len(p.base)
PieceBytes(p) == SubSeq(p.base, Nat64(p.off) + 1, Nat64(p.off) + Nat64(p.size))

HasKey(content, key) == \E i \in 1..Len(content) : content[i].key = key

\* setField: stores the value under key; a key already present keeps its place
\* and takes the new value.
setField(content, key, value) ==
  IF HasKey(content, key)
  THEN [i \in 1..Len(content) |->
          IF content[i].key = key THEN [key |-> key, value |-> value]
          ELSE content[i]]
  ELSE Append(content, [key |-> key, value |-> value])

\* fields(): the fields in their fixed order.
fields(content) == content

\* The set of (key, value bytes) pairs of a Record whose values are in bounds.
Pairs(content) ==
  {<<content[i].key, PieceBytes(content[i].value)>> : i \in 1..Len(content)}

-----------------------------------------------------------------------------
(* sendResponse(const SimpleSocketContent &): the write() calls it makes.  *)

\* One write(socket_fd_, data, count) call: the bytes handed over.
WriteCall(data, count) == [data |-> data, count |-> count]

\* field_sizes: (key.length(), value.second) of each field, in fields() order.
FieldSizes(response) ==
  [i \in 1..Len(fields(response)) |->
     <<U64(Len(fields(response)[i].key)), fields(response)[i].value.size>>]

\* total_size after the first loop: the sum of all key and value lengths.
RECURSIVE SumSizes(_, _)
SumSizes(field_sizes, i) ==
  IF i = 0 THEN Zero64
  ELSE Add64(SumSizes(field_sizes, i - 1),
             Add64(field_sizes[i][1], field_sizes[i][2]))

\* total_size without the bytes of num_fields and the size table.
TotalSizePayloadOnly(response) ==
  SumSizes(FieldSizes(response), Len(fields(response)))

\* total_size += sizeof(std::uint64_t) * (1 + 2 * num_fields).
TotalSize(response) ==
  LET num_fields == Len(fields(response))
  IN  Add64(SumSizes(FieldSizes(response), num_fields),
            U64(8 * (1 + 2 * num_fields)))

\* The size table writes: writeUInt64(it.first); writeUInt64(it.second).
RECURSIVE SizeWrites(_, _, _)
SizeWrites(h, field_sizes, i) ==
  IF i = 0 THEN <<>>
  ELSE SizeWrites(h, field_sizes, i - 1)
         \o <<WriteCall(writeUInt64(h, field_sizes[i][1]), U64(8)),
              WriteCall(writeUInt64(h, field_sizes[i][2]), U64(8))>>

\* The payload writes with each value written before its key.
RECURSIVE PayloadWritesValueFirst(_, _)
PayloadWritesValueFirst(response, i) ==
  IF i = 0 THEN <<>>
  ELSE PayloadWritesValueFirst(response, i - 1)
         \o <<WriteCall(PieceBytes(fields(response)[i].value),
                        FieldSizes(response)[i][2]),
              WriteCall(fields(response)[i].key, FieldSizes(response)[i][1])>>

\* The payload writes: write(fp.first, fs.first); write(fp.second, fs.second).
RECURSIVE PayloadWrites(_, _)
PayloadWrites(response, i) ==
  IF i = 0 THEN <<>>
  ELSE PayloadWrites(response, i - 1)
         \o <<WriteCall(fields(response)[i].key, FieldSizes(response)[i][1]),
              WriteCall(PieceBytes(fields(response)[i].value),
                        FieldSizes(response)[i][2])>>

\* All write() calls of one sendResponse(response), in program order.
sendResponse(h, response) ==
  LET num_fields == Len(fields(response))
  IN  <<WriteCall(writeUInt64(h, TotalSize(response)), U64(8)),
        WriteCall(writeUInt64(h, U64(num_fields)), U64(8))>>
        \o SizeWrites(h, FieldSizes(response), num_fields)
        \o PayloadWrites(response, num_fields)

\* sendResponse(stdout_str, stderr_str): the two-field Record it builds.
StdoutKey == <<115, 116, 100, 111, 117, 116>>
StderrKey == <<115, 116, 100, 101, 114, 114>>
\* A convenience form that sets "stderr" before "stdout".
StdResponseStderrFirst(stdout_str, stderr_str) ==
  setField(setField(<<>>, StderrKey, PieceOf(stderr_str)),
           StdoutKey, PieceOf(stdout_str))

StdResponse(stdout_str, stderr_str) ==
  setField(setField(<<>>, StdoutKey, PieceOf(stdout_str)),
           StderrKey, PieceOf(stderr_str))

\* The bytes a sequence of fully performed write() calls puts on the socket.
RECURSIVE Concat(_, _)
Concat(calls, i) ==
  IF i = 0 THEN <<>> ELSE Concat(calls, i - 1) \o calls[i].data

Frame(h, response) ==
  LET calls == sendResponse(h, response) IN Concat(calls, Len(calls))

-----------------------------------------------------------------------------
(* The inputs: Records the peer or the caller encodes, and peer frames.    *)

\* Key(i) is the i-byte key "a", "bb", ...
Key(i) == [j \in 1..i |-> 96 + i]
Keys == {Key(i) : i \in 1..MaxFields}
\* Values: the empty value and a value of non-text bytes.
Values == {<<>>, <<255, 0>>}

RECURSIVE MakeContent(_, _)
MakeContent(kvs, i) ==
  IF i = 0 THEN <<>>
  ELSE setField(MakeContent(kvs, i - 1), kvs[i][1], PieceOf(kvs[i][2]))

\* Every Record of at most MaxFields fields with keys Key(1)..Key(n).
Records ==
  UNION {{MakeContent(kvs, n) :
            kvs \in {f \in [1..n -> Keys \X Values] :
                       \A i \in 1..n : f[i][1] = Key(i)}} :
         n \in 0..MaxFields}

\* The Records a caller passes to sendResponse: one of each number of fields,
\* with keys Key(1)..Key(n) and the two values in turn.
Responses ==
  {MakeContent([i \in 1..n |->
                  <<Key(i), IF i % 2 = 1 THEN <<>> ELSE <<255, 0>>>>], n) :
     n \in 0..MaxFields}

\* sent_record: empty when the stream is not the output of sendResponse.
NoRecord == {}

\* A frame a peer writes in network byte order: total_length, num_fields, the
\* size table and the payload bytes.
RECURSIVE TableBytes(_, _)
TableBytes(table, i) ==
  IF i = 0 THEN <<>>
  ELSE TableBytes(table, i - 1) \o table[i][1] \o table[i][2]

PeerFrame(total_length, body) ==
  total_length \o body.num_fields
    \o TableBytes(body.table, Len(body.table)) \o body.payload

PeerBody(num_fields, table, payload) ==
  [num_fields |-> num_fields, table |-> table, payload |-> payload]

\* The last length receiveRequest accepts.
AlmostMax == <<0, 0, 0, 0, 15, 255, 255, 255>>
\* A length of 24 * 2^32.
HighWord24 == <<0, 0, 0, 24, 0, 0, 0, 0>>

kMaxRequestDataLength == <<0, 0, 0, 0, 16, 0, 0, 0>>

\* Bodies a peer sends after the length: well formed ones, and ones whose
\* size table disagrees with the bytes that follow.
EmptyBody == PeerBody(U64(0), <<>>, <<>>)
ExtraByteBody == PeerBody(U64(0), <<>>, <<97>>)
NoTableBody == PeerBody(U64(1), <<>>, <<>>)
EndlessBody == PeerBody(Max64, <<>>, <<>>)
OneFieldBody == PeerBody(U64(1), <<<<U64(1), U64(1)>>>>, <<97, 98>>)
HugeValueBody == PeerBody(U64(1), <<<<U64(1), Max64>>>>, <<97>>)
HugeKeyBody == PeerBody(U64(1), <<<<Max64, U64(1)>>>>, <<97>>)
WrapBody ==
  PeerBody(U64(2), <<<<U64(1), Max64>>, <<U64(1), U64(0)>>>>, <<97>>)
SameKeyBody ==
  PeerBody(U64(2), <<<<U64(1), U64(0)>>, <<U64(1), U64(0)>>>>, <<97, 97>>)
HugeSecondKeyBody ==
  PeerBody(U64(2), <<<<U64(1), U64(0)>>, <<Max64, U64(0)>>>>, <<97>>)

PeerFrames ==
  { PeerFrame(U64(8), EmptyBody),
    PeerFrame(U64(8), ExtraByteBody),
    PeerFrame(U64(9), ExtraByteBody),
    PeerFrame(U64(0), EmptyBody),
    PeerFrame(U64(7), EmptyBody),
    PeerFrame(U64(8), NoTableBody),
    PeerFrame(U64(8), EndlessBody),
    PeerFrame(U64(26), OneFieldBody),
    PeerFrame(U64(25), OneFieldBody),
    PeerFrame(U64(24), OneFieldBody),
    PeerFrame(U64(41), OneFieldBody),
    PeerFrame(U64(24), HugeValueBody),
    PeerFrame(U64(25), HugeValueBody),
    PeerFrame(U64(25), HugeKeyBody),
    PeerFrame(U64(41), WrapBody),
    PeerFrame(U64(42), SameKeyBody),
    PeerFrame(U64(41), HugeSecondKeyBody),
    PeerFrame(AlmostMax, EmptyBody),
    PeerFrame(kMaxRequestDataLength, EmptyBody),
    PeerFrame(HighWord24, OneFieldBody),
    PeerFrame(Max64, EmptyBody) }

\* The strings a caller passes as stdout_str and stderr_str: "" and "hello\n".
Hello == <<104, 101, 108, 108, 111, 10>>
StdStrings == {<<>>, Hello}

\* The Records sendResponse(stdout_str, stderr_str) builds.
StdResponses ==
  {StdResponse(stdout_str, stderr_str) :
     stdout_str \in StdStrings, stderr_str \in StdStrings}

\* (stream, sent_record): what the peer delivers, and the Record it encoded
\* when the stream is the output of sendResponse on a host like this one.
Scenarios(h) ==
  {<<Frame(h, r), {r}>> : r \in Records \cup StdResponses}
    \cup {<<frame, NoRecord>> : frame \in PeerFrames}

\* sendResponse tabulated over the hosts and the Records the caller passes.
WritesOf ==
  [h \in Hosts |->
     [response \in Records \cup StdResponses |-> sendResponse(h, response)]]

-----------------------------------------------------------------------------
(* Decoding the received body (receiveRequest, lines 95-119).              *)

\* TRUE when the size bytes at request_data_ + off lie inside the len bytes
\* that were allocated (a read of no bytes touches nothing).
InBounds(len, off, size) ==
  \/ size = Zero64
  \/ /\ Less64(off, len)
     /\ ~Less64(U64(Nat64(len) - Nat64(off)), size)

\* The size bytes at request_data_ + off; used only where InBounds.
ReadMem(buf, off, size) ==
  IF size = Zero64 THEN <<>>
  ELSE SubSeq(buf, Nat64(off) + 1, Nat64(off) + Nat64(size))

\* Ntohll(*size_ptr) for size_ptr at byte offset off.
ReadSize(h, buf, off) ==
  Ntohll(h, LoadU64(h, ReadMem(buf, U64(off), U64(8))))

\* TRUE when num_fields and the whole size table lie inside the buffer.
TableInBounds(h, buf) ==
  /\ Len(buf) >= 8
  /\ LET num_fields == ReadSize(h, buf, 0)
     IN  /\ IsSmall(num_fields)
         /\ Nat64(num_fields) <= (Len(buf) - 8) \div 16

\* field_sizes after the first loop.
DecodeSizes(h, buf) ==
  [i \in 1..Nat64(ReadSize(h, buf, 0)) |->
     <<ReadSize(h, buf, 8 + 16 * (i - 1)),
       ReadSize(h, buf, 16 + 16 * (i - 1))>>]

\* data_ptr, as an offset from request_data_, before field i is sliced:
\* data_ptr += key_size + value_size, modulo 2^64.
RECURSIVE DataPtr(_, _)
\* A cursor that starts at the size table, not after the num_fields word.
DataPtrNoHeader(field_sizes, i) ==
  IF i = 1 THEN U64(16 * Len(field_sizes))
  ELSE Add64(DataPtr(field_sizes, i - 1),
             Add64(field_sizes[i - 1][1], field_sizes[i - 1][2]))

DataPtr(field_sizes, i) ==
  IF i = 1 THEN U64(8 + 16 * Len(field_sizes))
  ELSE Add64(DataPtr(field_sizes, i - 1),
             Add64(field_sizes[i - 1][1], field_sizes[i - 1][2]))

\* TRUE when the key bytes setField copies for fields 1..n lie in the buffer.
KeysInBounds(buf, field_sizes, n) ==
  \A i \in 1..n :
    InBounds(U64(Len(buf)), DataPtr(field_sizes, i), field_sizes[i][1])

\* request_ after the second loop has called setField for fields 1..i.
RECURSIVE DecodeFields(_, _, _)
DecodeFields(buf, field_sizes, i) ==
  IF i = 0 THEN <<>>
  ELSE LET data_ptr == DataPtr(field_sizes, i)
           key_size == field_sizes[i][1]
           value_size == field_sizes[i][2]
       IN  setField(DecodeFields(buf, field_sizes, i - 1),
                    ReadMem(buf, data_ptr, key_size),
                    StringPiece(buf, Add64(data_ptr, key_size), value_size))

\* TRUE when every byte the decoding reads lies inside the buffer.
DecodeInBounds(h, buf) ==
  /\ TableInBounds(h, buf)
  /\ KeysInBounds(buf, DecodeSizes(h, buf), Len(DecodeSizes(h, buf)))

\* The check compiled out.
CheckEqIgnored(len, data_ptr) == TRUE

\* CHECK_EQ(request_data_ + request_data_length_, data_ptr).
CheckEq(len, data_ptr) == len = data_ptr

\* The first field whose key bytes do not lie inside the buffer.
FirstBadKey(buf, field_sizes) ==
  CHOOSE i \in 1..Len(field_sizes) :
    /\ ~KeysInBounds(buf, field_sizes, i)
    /\ KeysInBounds(buf, field_sizes, i - 1)

\* request_ when an exception leaves the decode loops: empty while the size
\* table is read, and the fields set so far when setField throws on a key.
PartialRecord(h, buf) ==
  IF TableInBounds(h, buf)
  THEN LET field_sizes == DecodeSizes(h, buf)
       IN  DecodeFields(buf, field_sizes, FirstBadKey(buf, field_sizes) - 1)
  ELSE <<>>

\* Lines 95-119 on a buffer buf of len bytes: whether every read stays inside
\* the buffer; request_ after the loops (or when an exception leaves them);
\* and whether CHECK_EQ finds the cursor at the buffer's end.
DecodeResult(h, len, buf) ==
  IF DecodeInBounds(h, buf)
  THEN LET field_sizes == DecodeSizes(h, buf)
           num_fields == Len(field_sizes)
       IN  [in_bounds |-> TRUE,
            request |-> DecodeFields(buf, field_sizes, num_fields),
            check_eq |-> CheckEq(len, DataPtr(field_sizes, num_fields + 1))]
  ELSE [in_bounds |-> FALSE,
        request |-> PartialRecord(h, buf),
        check_eq |-> FALSE]

\* The (length, body) pairs the streams of the model hold.
DecodeInputs(h) ==
  {LET len == receiveUInt64(h, SubSeq(sc[1], 1, 8))
   IN  <<len,
         IF Less64(len, U64(Len(sc[1]) - 7))
         THEN SubSeq(sc[1], 9, 8 + Nat64(len))
         ELSE <<>>>> : sc \in Scenarios(h)}

\* DecodeResult tabulated over the hosts and those pairs.
DecodeTable ==
  [h \in Hosts |->
     [in \in DecodeInputs(h) |-> DecodeResult(h, in[1], in[2])]]

-----------------------------------------------------------------------------
(* The Connection: construction, sendResponse, destruction.                *)

\* request_data_length_ before line 86 assigns it: no value yet.
Uninit == <<>>
\* error_message_ is nullptr, or points to the what() of the exception caught.
NoError == <<>>
ReceiveError ==
  <<"Error receiving data from socket connection",
    " at SimpleSocketConnection::", "receiveData()">>
\* "Overflow request data length = " + std::to_string(request_data_length_)
OverflowError(len) == <<"Overflow request data length = ", len>>
\* what() of the std::bad_alloc a runaway field_sizes.emplace_back throws.
BadAlloc == <<"std::bad_alloc">>
\* what() of the std::length_error the std::string of an oversized key throws.
LengthError == <<"std::length_error">>

hasError == error_message_ # NoError

Init ==
  /\ host \in Hosts
  /\ \E sc \in Scenarios(host) : stream = sc[1] /\ sent_record = sc[2]
  /\ pos = 0
  /\ code_mem = <<>>
  /\ request_data_length_ = Uninit
  /\ request_data_ = "null"
  /\ buffer = <<>>
  /\ request_ = <<>>
  /\ error_message_ = NoError
  /\ pc = "receiveUInt64"
  /\ oob_read = FALSE
  /\ read_failed = FALSE
  /\ malloc_failed = FALSE
  /\ short_read = FALSE
  /\ last_response = <<>>
  /\ writes = <<>>
  /\ write_returns = <<>>
  /\ frees = 0
  /\ shutdowns = 0
  /\ closes = 0

\* What read(socket_fd_, dst, bytes) can return: a positive count no larger
\* than requested and available, 0 at end of stream, or -1 on a socket error.
Available == Len(stream) - pos
ReadResults(bytes) ==
  (1..(IF bytes < Available THEN bytes ELSE Available))
    \cup (IF Available = 0 THEN {0} ELSE {}) \cup {-1}

\* The bytes one read() of bytes_read bytes stores at dst.
Delivered(bytes_read) == SubSeq(stream, pos + 1, pos + bytes_read)

\* A receiveData that never advances dst: every read() stores at the start.
StoreAtStart(mem, data) == data \o SubSeq(mem, Len(data) + 1, Len(mem))

\* The memory at the first dst after one more read() stored data at the
\* current dst, which every iteration advances past the bytes already stored
\* (line 130).
StoreAt(mem, data) == mem \o data

\* A handler that stores the message and lets receiveData try again.
CatchAndRetry(what) ==
  /\ error_message_' = what
  /\ pc' = pc

\* A catch block that swallows the exception without storing its message.
CatchSilently(what) ==
  /\ error_message_' = error_message_
  /\ pc' = "constructed"

\* catch (const std::exception &e): the constructor stores e.what() and returns.
Catch(what) ==
  /\ error_message_' = what
  /\ pc' = "constructed"

\* One iteration of receiveData(&code, sizeof(std::uint64_t)) in receiveUInt64;
\* the last one returns Ntohll(code) into request_data_length_ (line 86).
ReceiveLength ==
  /\ pc = "receiveUInt64"
  /\ \E bytes_read \in ReadResults(8 - Len(code_mem)) :
       IF bytes_read <= 0
       THEN /\ Catch(ReceiveError)
            /\ read_failed' = TRUE
            /\ UNCHANGED <<pos, code_mem, request_data_length_, short_read>>
       ELSE /\ pos' = pos + bytes_read
            /\ code_mem' = StoreAt(code_mem, Delivered(bytes_read))
            /\ short_read' = (short_read \/ bytes_read < 8 - Len(code_mem))
            /\ IF Len(code_mem') = 8
               THEN /\ request_data_length_' = receiveUInt64(host, code_mem')
                    /\ pc' = "check_length"
               ELSE UNCHANGED <<request_data_length_, pc>>
            /\ UNCHANGED <<error_message_, read_failed>>
  /\ UNCHANGED <<malloc_failed, host, stream, sent_record, request_data_,
                 buffer, request_, oob_read, last_response, writes,
                 write_returns, frees,
                 shutdowns, closes>>

\* The length check with > in place of >=.
OversizedStrict(len) == Less64(kMaxRequestDataLength, len)

\* if (request_data_length_ >= kMaxRequestDataLength) throw ...
Oversized(len) == ~Less64(len, kMaxRequestDataLength)

\* Lines 87-93 up to the first read of the body: the length check, then
\* std::malloc, which returns a pointer or NULL.
CheckLength ==
  /\ pc = "check_length"
  /\ IF Oversized(request_data_length_)
     THEN /\ Catch(OverflowError(request_data_length_))
          /\ UNCHANGED <<request_data_, malloc_failed>>
     ELSE /\ \E p \in {"null", "allocated"} : request_data_' = p
          /\ malloc_failed' = (request_data_' = "null")
          /\ pc' = IF request_data_length_ = Zero64 THEN "decode"
                   ELSE "receiveData"
          /\ UNCHANGED error_message_
  /\ UNCHANGED <<read_failed, short_read, host, stream, sent_record, pos,
                 code_mem,
                 request_data_length_, buffer, request_, oob_read,
                 last_response, writes, write_returns, frees, shutdowns,
                 closes>>

\* A receiveData that asks for the whole count again on every iteration.
RemainingWhole(len) ==
  IF Less64(len, U64(Len(stream) + 1)) THEN Nat64(len)
  ELSE Len(stream) + 1

\* The bytes receiveData(request_data_, request_data_length_) still wants;
\* a count beyond what the stream holds is cut to one more than it holds.
Remaining(len) ==
  IF Less64(len, U64(Len(stream) + 1)) THEN Nat64(len) - Len(buffer)
  ELSE Len(stream) + 1

\* One iteration of receiveData(request_data_, request_data_length_); read()
\* into a NULL buffer fails.
ReceiveBody ==
  /\ pc = "receiveData"
  /\ \E bytes_read \in (IF request_data_ = "null" THEN {-1}
                        ELSE ReadResults(Remaining(request_data_length_))) :
       IF bytes_read <= 0
       THEN /\ Catch(ReceiveError)
            /\ read_failed' = TRUE
            /\ UNCHANGED <<pos, buffer, short_read>>
       ELSE /\ pos' = pos + bytes_read
            /\ buffer' = StoreAt(buffer, Delivered(bytes_read))
            /\ short_read' =
                 (short_read \/ bytes_read < Remaining(request_data_length_))
            /\ pc' = IF U64(Len(buffer')) = request_data_length_
                     THEN "decode" ELSE "receiveData"
            /\ UNCHANGED <<error_message_, read_failed>>
  /\ UNCHANGED <<malloc_failed, host, stream, sent_record, code_mem,
                 request_data_length_, request_data_, request_, oob_read,
                 last_response, writes, write_returns, frees, shutdowns,
                 closes>>

\* The decoding of the buffer at hand.
Decoded ==
  IF <<request_data_length_, buffer>> \in DOMAIN DecodeTable[host]
  THEN DecodeTable[host][<<request_data_length_, buffer>>]
  ELSE DecodeResult(host, request_data_length_, buffer)

\* Lines 95-119 when every read stays inside the buffer: both loops, then
\* CHECK_EQ, which ends the process when the cursor is not at the buffer's end.
Decode ==
  /\ pc = "decode"
  /\ request_data_ = "allocated"
  /\ Decoded.in_bounds
  /\ request_' = Decoded.request
  /\ pc' = IF Decoded.check_eq THEN "constructed" ELSE "aborted"
  /\ UNCHANGED <<read_failed, malloc_failed, short_read, host, stream,
                 sent_record, pos, code_mem, request_data_length_,
                 request_data_, buffer, error_message_, oob_read,
                 last_response, writes, write_returns, frees, shutdowns,
                 closes>>

\* A Record built from bytes outside the buffer.
GarbageRecords == {<<>>, <<[key |-> <<0>>, value |-> PieceOf(<<>>)]>>}

\* Lines 95-119 when a read leaves the buffer (num_fields, a size table entry
\* or a key lies outside [0, request_data_length_), or request_data_ is NULL):
\* undefined behaviour.  The process faults, or goes on with whatever bytes
\* it found: CHECK_EQ ends it, emplace_back throws once memory runs out or
\* the std::string of a key cannot be built (the constructor catches either,
\* with the fields set so far in request_), or the constructor returns with
\* a Record of those bytes.
DecodeOutOfBounds ==
  /\ pc = "decode"
  /\ request_data_ = "null" \/ ~Decoded.in_bounds
  /\ oob_read' = TRUE
  /\ \/ /\ pc' = "segfault"
        /\ UNCHANGED <<request_, error_message_>>
     \/ /\ pc' = "aborted"
        /\ UNCHANGED <<request_, error_message_>>
     \/ /\ \E what \in {BadAlloc, LengthError} : Catch(what)
        /\ request_' = IF request_data_ = "null" THEN <<>>
                       ELSE Decoded.request
     \/ /\ \E garbage \in GarbageRecords : request_' = garbage
        /\ pc' = "constructed"
        /\ UNCHANGED error_message_
  /\ UNCHANGED <<read_failed, malloc_failed, short_read, host, stream,
                 sent_record, pos,
                 code_mem, request_data_length_, request_data_, buffer,
                 last_response, writes, write_returns, frees, shutdowns,
                 closes>>

\* What the write() calls of one sendResponse return: each its count; or,
\* in a faulty run, the first call fails (-1) and the second stores 3 of its
\* 8 bytes.  A fault is a set of (call, return value) pairs.
WriteFaults == {{}, {<<1, -1>>, <<2, 3>>}}
WriteReturns(calls, fault) ==
  [i \in 1..Len(calls) |->
     IF \E f \in fault : f[1] = i
     THEN (CHOOSE f \in fault : f[1] = i)[2]
     ELSE Nat64(calls[i].count)]

\* A sendResponse that makes no further write() once one has failed or was
\* short.
StopAtFailedWrite(ret, count) == ret = count

\* Whether the write() after one that returned ret for count bytes is made:
\* sendResponse and writeUInt64 discard what write() returns.
NextWriteMade(ret, count) == TRUE

\* The write() calls made of calls when they return rets, with what each
\* returned.
CallsMade(calls, rets) ==
  LET stop == {i \in 1..Len(calls) :
                 ~NextWriteMade(rets[i], Nat64(calls[i].count))}
      made == IF stop = {} THEN Len(calls)
              ELSE CHOOSE i \in stop : \A j \in stop : i <= j
  IN  [calls |-> SubSeq(calls, 1, made), returns |-> SubSeq(rets, 1, made)]

\* The runs of sendResponse(response), one for each way write() can return,
\* tabulated over the hosts and the Records the caller passes.
SendsOf ==
  [h \in Hosts |->
     [response \in Records \cup StdResponses |->
        {CallsMade(WritesOf[h][response],
                   WriteReturns(WritesOf[h][response], fault)) :
           fault \in WriteFaults}]]

\* sendResponse(response) on a constructed Connection.
SendResponse ==
  /\ pc = "constructed"
  /\ \E r \in Responses :
       \E run \in SendsOf[host][r] :
         /\ last_response' = r
         /\ writes' = run.calls
         /\ write_returns' = run.returns
  /\ UNCHANGED <<read_failed, malloc_failed, short_read, host, stream,
                 sent_record, pos, code_mem, request_data_length_,
                 request_data_, buffer, request_, error_message_, pc,
                 oob_read, frees, shutdowns, closes>>

\* sendResponse(stdout_str, stderr_str) on a constructed Connection.
SendStdResponse ==
  /\ pc = "constructed"
  /\ \E stdout_str \in StdStrings, stderr_str \in StdStrings :
       \E run \in SendsOf[host][StdResponse(stdout_str, stderr_str)] :
         /\ last_response' = StdResponse(stdout_str, stderr_str)
         /\ writes' = run.calls
         /\ write_returns' = run.returns
  /\ UNCHANGED <<read_failed, malloc_failed, short_read, host, stream,
                 sent_record, pos, code_mem, request_data_length_,
                 request_data_, buffer, request_, error_message_, pc,
                 oob_read, frees, shutdowns, closes>>

\* A destructor that tears the socket down whether or not a buffer exists.
DestroyAlways ==
  /\ pc = "constructed"
  /\ pc' = "destroyed"
  /\ frees' = IF request_data_ # "null" THEN frees + 1 ELSE frees
  /\ request_data_' = "null"
  /\ shutdowns' = shutdowns + 1
  /\ closes' = closes + 1
  /\ UNCHANGED <<read_failed, malloc_failed, short_read, host, stream,
                 sent_record, pos,
                 code_mem, request_data_length_, buffer, request_,
                 error_message_, oob_read, last_response, writes,
                 write_returns>>

\* A destructor that closes the socket and keeps the buffer.
DestroyLeaks ==
  /\ pc = "constructed"
  /\ pc' = "destroyed"
  /\ IF request_data_ # "null"
     THEN /\ shutdowns' = shutdowns + 1
          /\ closes' = closes + 1
     ELSE UNCHANGED <<shutdowns, closes>>
  /\ UNCHANGED <<read_failed, malloc_failed, short_read, host, stream,
                 sent_record, pos, code_mem, request_data_length_, buffer,
                 request_, error_message_, oob_read, last_response, writes,
                 write_returns,
                 frees, request_data_>>

\* ~SimpleSocketConnection().
Destroy ==
  /\ pc = "constructed"
  /\ pc' = "destroyed"
  /\ IF request_data_ # "null"
     THEN /\ frees' = frees + 1
          /\ request_data_' = "null"
          /\ shutdowns' = shutdowns + 1
          /\ closes' = closes + 1
     ELSE UNCHANGED <<frees, request_data_, shutdowns, closes>>
  /\ UNCHANGED <<read_failed, malloc_failed, short_read, host, stream,
                 sent_record, pos,
                 code_mem, request_data_length_, buffer, request_,
                 error_message_, oob_read, last_response, writes,
                 write_returns>>

Next ==
  \/ ReceiveLength
  \/ CheckLength
  \/ ReceiveBody
  \/ Decode
  \/ DecodeOutOfBounds
  \/ SendResponse
  \/ SendStdResponse
  \/ Destroy

Spec == Init /\ [][Next]_vars

\* The constructor's thread keeps running, and every read() it calls returns:
\* each step of the construction is taken once it can be.  Nothing obliges
\* the caller to send a response or to destroy the Connection.
FairSpec ==
  /\ Spec
  /\ WF_vars(ReceiveLength)
  /\ WF_vars(CheckLength)
  /\ WF_vars(ReceiveBody)
  /\ WF_vars(Decode)
  /\ WF_vars(DecodeOutOfBounds)

-----------------------------------------------------------------------------
(* Properties.                                                             *)

Constructed == pc = "constructed"
LengthRead == Len(request_data_length_) = 8

\* The length as an integer is at least 0x10000000 = 2^28.
AtLeastMax(len) ==
  \/ \E i \in 1..4 : len[i] # 0
  \/ len[5] >= 16

\* C1: round trip.  When the peer's stream is the output of sendResponse for
\* a Record, no read fails and malloc succeeds, construction returns without
\* error and getRequest() holds exactly the Record's (key, value) pairs; the
\* process is never ended while decoding such a stream.
C1_RoundTrip ==
  \A r \in sent_record :
    /\ pc \notin {"aborted", "segfault"}
    /\ ~oob_read
    /\ (Constructed /\ ~read_failed /\ ~malloc_failed) =>
         /\ ~hasError
         /\ Len(request_) = Len(r)
         /\ \A i \in 1..Len(request_) : InPiece(request_[i].value)
         /\ Pairs(request_) = Pairs(r)

\* A two-field Record with an empty and a non-text value has made the trip.
C1_Witness ==
  /\ Constructed
  /\ ~hasError
  /\ \E r \in sent_record :
       /\ Len(r) = 2
       /\ Pairs(r) = {<<Key(1), <<>>>>, <<Key(2), <<255, 0>>>>}
       /\ Pairs(request_) = Pairs(r)

\* C2: oversized request.  Once the length has been read and checked, a
\* length of at least 0x10000000 means the constructor has returned with
\* hasError(), request_data_ was never allocated (it is null and nothing was
\* or will be freed), and exactly the 8 bytes of the length were consumed.
C2_Oversized ==
  (LengthRead /\ pc # "check_length" /\ AtLeastMax(request_data_length_)) =>
    /\ pc \in {"constructed", "destroyed"}
    /\ hasError
    /\ error_message_ = OverflowError(request_data_length_)
    /\ request_data_ = "null"
    /\ frees = 0
    /\ buffer = <<>>
    /\ pos = 8

\* A peer has declared 0xFFFFFFFFFFFFFFFF, with body bytes still unread.
C2_Witness ==
  /\ Constructed
  /\ request_data_length_ = Max64
  /\ hasError
  /\ Len(stream) > pos

Returned == pc \in {"constructed", "destroyed"}

\* C3: truncated or closed connection.  Once a read() has returned zero or
\* less, the constructor has returned with hasError() and the receiveData
\* message stored, and no field was decoded from what had been received.
C3_Truncated ==
  read_failed =>
    /\ Returned
    /\ hasError
    /\ error_message_ = ReceiveError
    /\ request_ = <<>>

\* The body stopped short: the buffer is allocated and partly filled.
C3_Witness ==
  /\ Constructed
  /\ read_failed
  /\ request_data_ = "allocated"
  /\ Len(buffer) > 0
  /\ U64(Len(buffer)) # request_data_length_

\* The cursor data_ptr, as an offset into the buffer, after both loops.
FrameEnd == LET field_sizes == DecodeSizes(host, buffer)
            IN  DataPtr(field_sizes, Len(field_sizes) + 1)

\* The body was received in full and decoded without leaving the buffer.
DecodedInBounds ==
  /\ LengthRead
  /\ ~AtLeastMax(request_data_length_)
  /\ ~read_failed
  /\ ~malloc_failed
  /\ ~oob_read
  /\ pc \in {"constructed", "destroyed", "aborted"}

\* C4 as claimed: no decode failure ends the process; stated for the decodes
\* that never read outside the buffer.
C4_NeverTerminates ==
  ~oob_read => pc \notin {"aborted", "segfault"}

\* C4 as amended: every exception thrown while decoding (a failed read, an
\* oversized length) is caught, and the constructor returns with hasError();
\* an error flag is only ever seen on a Connection that was returned.  A body
\* whose size table and header do not end at total_length is not such an
\* error: CHECK_EQ ends the process, and a body read inside the buffer gives
\* a constructed Connection exactly when the two agree.
C4_Amended ==
  /\ hasError => Returned
  /\ read_failed => (Returned /\ hasError)
  /\ (LengthRead /\ pc # "check_length"
        /\ AtLeastMax(request_data_length_)) => (Returned /\ hasError)
  /\ pc = "segfault" => oob_read
  /\ DecodedInBounds =>
       /\ pc = "aborted" <=> FrameEnd # request_data_length_
       /\ Returned <=> FrameEnd = request_data_length_

\* A frame with consistent reads but a wrong total_length has ended the process.
C4_Witness ==
  /\ pc = "aborted"
  /\ DecodedInBounds
  /\ FrameEnd # request_data_length_

\* The sum of the size table entries 1..i over the integers.
RECURSIVE SumTable(_, _)
SumTable(field_sizes, i) ==
  IF i = 0 THEN 0
  ELSE SumTable(field_sizes, i - 1)
         + Nat64(field_sizes[i][1]) + Nat64(field_sizes[i][2])

\* total_length = 8 + 16 * num_fields + the sum of the key and value lengths,
\* over the integers: every entry is small enough to be summed, and the sum
\* is the length itself.
ExactLength(len, field_sizes) ==
  /\ \A i \in 1..Len(field_sizes) :
       IsSmall(field_sizes[i][1]) /\ IsSmall(field_sizes[i][2])
  /\ Nat64(len) = 8 + 16 * Len(field_sizes)
                    + SumTable(field_sizes, Len(field_sizes))

\* C5: exact length verification.  Whenever construction completes with
\* hasError() false, total_length = 8 + 16 * num_fields + the sum of the
\* size table over the unbounded integers.
C5_ExactLength ==
  (Constructed /\ ~hasError /\ DecodedInBounds) =>
    ExactLength(request_data_length_, DecodeSizes(host, buffer))

\* The request passed the length check and std::malloc returned a buffer.
Allocated ==
  /\ LengthRead
  /\ ~AtLeastMax(request_data_length_)
  /\ pc # "check_length"
  /\ ~malloc_failed

\* The buffer holds all total_length bytes of the body.
Populated == LengthRead /\ U64(Len(buffer)) = request_data_length_

\* C6 as claimed: at destruction the socket is shut down and closed if and
\* only if the buffer was allocated and populated.
C6_AllocatedAndPopulated ==
  pc = "destroyed" =>
    ((shutdowns = 1 /\ closes = 1) <=> (Allocated /\ Populated))

\* C6 as amended: at destruction the socket is shut down and closed, once,
\* if and only if the buffer was allocated (the length check passed and
\* std::malloc returned a pointer), whether or not the body then arrived in
\* full; before destruction it is never shut down or closed.
C6_Amended ==
  /\ pc = "destroyed" =>
       /\ shutdowns = closes
       /\ closes = (IF Allocated THEN 1 ELSE 0)
  /\ pc # "destroyed" => (shutdowns = 0 /\ closes = 0)

\* A Connection whose body was truncated was destroyed, and closed the socket.
C6_Witness ==
  /\ pc = "destroyed"
  /\ closes = 1
  /\ read_failed
  /\ Allocated
  /\ ~Populated

Sent == writes # <<>>

\* The byte lengths of the keys and values of fields 1..i, over the integers.
RECURSIVE PayloadLength(_, _)
PayloadLength(content, i) ==
  IF i = 0 THEN 0
  ELSE PayloadLength(content, i - 1)
         + Len(content[i].key) + Len(PieceBytes(content[i].value))

\* 8 + 16 * num_fields + the byte lengths of all keys and values.
ExpectedLength(content) ==
  8 + 16 * Len(content) + PayloadLength(content, Len(content))

\* The byte counts write() calls from..Len(calls) ask for, and the bytes
\* they hand over.
RECURSIVE CountFrom(_, _)
CountFrom(calls, from) ==
  IF from > Len(calls) THEN 0
  ELSE Nat64(calls[from].count) + CountFrom(calls, from + 1)
RECURSIVE BytesFrom(_, _)
BytesFrom(calls, from) ==
  IF from > Len(calls) THEN 0
  ELSE Len(calls[from].data) + BytesFrom(calls, from + 1)

\* C7: encode length.  The first write of sendResponse is the 8-byte
\* writeUInt64 of total_length = 8 + 16 * num_fields + the byte lengths of
\* all keys and values, and that is the number of bytes the later writes
\* ask for and hand over.
C7_EncodeLength ==
  Sent =>
    /\ writes[1] =
         WriteCall(writeUInt64(host, U64(ExpectedLength(last_response))),
                   U64(8))
    /\ CountFrom(writes, 2) = ExpectedLength(last_response)
    /\ BytesFrom(writes, 2) = ExpectedLength(last_response)

\* A two-field Record with a two-byte value was sent: total_length is 45.
C7_Witness ==
  /\ Sent
  /\ Len(last_response) = 2
  /\ <<Key(2), <<255, 0>>>> \in Pairs(last_response)
  /\ ExpectedLength(last_response) = 45

\* C8: encode ordering.  One sendResponse makes exactly these writes, in this
\* order: total_length, num_fields, (key_length, value_length) of fields
\* 1..n, then for fields 1..n the key bytes followed by the value bytes, the
\* i-th size table entry giving the lengths of the i-th key and value.
C8_EncodeOrder ==
  Sent =>
    LET n == Len(last_response)
    IN  /\ Len(writes) = 2 + 4 * n
        /\ writes[1].data =
             writeUInt64(host, U64(ExpectedLength(last_response)))
        /\ writes[2] = WriteCall(writeUInt64(host, U64(n)), U64(8))
        /\ \A i \in 1..n :
             LET key == last_response[i].key
                 value == PieceBytes(last_response[i].value)
             IN  /\ writes[2 * i + 1] =
                      WriteCall(writeUInt64(host, U64(Len(key))), U64(8))
                 /\ writes[2 * i + 2] =
                      WriteCall(writeUInt64(host, U64(Len(value))), U64(8))
                 /\ writes[2 * n + 2 * i + 1] = WriteCall(key, U64(Len(key)))
                 /\ writes[2 * n + 2 * i + 2] =
                      WriteCall(value, U64(Len(value)))

\* Two fields with keys and values of different lengths were sent.
C8_Witness ==
  /\ Sent
  /\ Len(last_response) = 2
  /\ Pairs(last_response) = {<<Key(1), <<>>>>, <<Key(2), <<255, 0>>>>}

\* C9: wire byte order.  Every writeUInt64 puts the big-endian bytes of its
\* value on the wire, and receiveUInt64 reads 8 wire bytes as a big-endian
\* value, on little- and big-endian hosts alike.  (A value is held as its
\* bytes, most significant first: those are its bytes in network order.)
C9_BigEndianWire ==
  /\ Sent =>
       /\ writes[1].data = U64(ExpectedLength(last_response))
       /\ writes[2].data = U64(Len(last_response))
  /\ LengthRead => request_data_length_ = code_mem

\* C9 on little-endian hosts alone.
C9_LittleEndianHosts == host = "little" => C9_BigEndianWire

\* The 64-bit words at hand in a state: every 8-byte window of the stream
\* (when the Connection is handed the socket: the stream never changes),
\* the length read, and the 8-byte writes.
WordsAtHand ==
  (IF pos = 0 THEN {SubSeq(stream, i, i + 7) : i \in 1..(Len(stream) - 7)}
   ELSE {})
    \cup (IF LengthRead THEN {request_data_length_} ELSE {})
    \cup {writes[j].data :
            j \in {k \in 1..Len(writes) : writes[k].count = U64(8)}}

\* C10: byte-order round trip.  Ntohll(Htonll(v)) = v and Htonll(Ntohll(v)) = v
\* for every 64-bit word at hand, on little- and big-endian hosts.
C10_RoundTrip ==
  \A v \in WordsAtHand :
    /\ Ntohll(host, Htonll(host, v)) = v
    /\ Htonll(host, Ntohll(host, v)) = v

\* On a big-endian host a word whose two halves differ is at hand, and so is
\* one with at least three different bytes.
C10_Witness ==
  /\ host = "big"
  /\ <<0, 0, 0, 24, 0, 0, 0, 0>> \in WordsAtHand
  /\ \E v \in WordsAtHand : Cardinality({v[i] : i \in 1..8}) >= 3

\* The write() calls of a two-field frame "stdout" -> out, "stderr" -> err,
\* spelled out: total_length, num_fields = 2, the size table (6, |out|),
\* (6, |err|), then the key and value bytes.
StdFrameWrites(h, out, err) ==
  <<WriteCall(writeUInt64(h, U64(8 + 32 + 12 + Len(out) + Len(err))), U64(8)),
    WriteCall(writeUInt64(h, U64(2)), U64(8)),
    WriteCall(writeUInt64(h, U64(6)), U64(8)),
    WriteCall(writeUInt64(h, U64(Len(out))), U64(8)),
    WriteCall(writeUInt64(h, U64(6)), U64(8)),
    WriteCall(writeUInt64(h, U64(Len(err))), U64(8)),
    WriteCall(StdoutKey, U64(6)),
    WriteCall(out, U64(Len(out))),
    WriteCall(StderrKey, U64(6)),
    WriteCall(err, U64(Len(err)))>>

\* C11 as claimed: sendResponse(out, err) makes the writes of the two-field
\* frame, and for out = "hello\n", err = "" the total_length written is 52.
C11_HelloIs52 ==
  /\ \A out \in StdStrings, err \in StdStrings :
       (Sent /\ last_response = StdResponse(out, err)) =>
         writes = StdFrameWrites(host, out, err)
  /\ (Sent /\ last_response = StdResponse(Hello, <<>>)) =>
       writes[1].data = writeUInt64(host, U64(52))

\* C11 as amended: for all strings out and err, sendResponse(out, err) makes
\* the writes of the two-field frame "stdout" -> out, "stderr" -> err:
\* num_fields = 2, size table (6, |out|), (6, |err|), total_length =
\* 8 + 32 + 12 + |out| + |err|, which is 58 for "hello\n" and ""; and a
\* Connection that receives those bytes in full holds exactly these two
\* fields, in this order.
C11_ConvenienceSend ==
  /\ \A out \in StdStrings, err \in StdStrings :
       /\ (Sent /\ last_response = StdResponse(out, err)) =>
            writes = StdFrameWrites(host, out, err)
       /\ (sent_record = {StdResponse(out, err)}
             /\ Constructed /\ ~read_failed /\ ~malloc_failed) =>
            /\ ~hasError
            /\ Len(request_) = 2
            /\ request_[1].key = StdoutKey
            /\ InPiece(request_[1].value)
            /\ PieceBytes(request_[1].value) = out
            /\ request_[2].key = StderrKey
            /\ InPiece(request_[2].value)
            /\ PieceBytes(request_[2].value) = err
  /\ (Sent /\ last_response = StdResponse(Hello, <<>>)) =>
       writes[1].data = writeUInt64(host, U64(58))

\* A Connection decoded the 66 bytes of the frame of "hello\n" and "" and
\* then sent "hello\n" and "" itself.
C11_Witness ==
  /\ sent_record = {StdResponse(Hello, <<>>)}
  /\ Constructed
  /\ ~hasError
  /\ Len(request_) = 2
  /\ Sent
  /\ last_response = StdResponse(Hello, <<>>)
  /\ Len(stream) = 8 + 58

\* The peer declared 8 bytes, all 8 were stored, and they hold num_fields = 0.
ZeroFieldRequest ==
  /\ LengthRead
  /\ request_data_length_ = U64(8)
  /\ request_data_ = "allocated"
  /\ Len(buffer) = 8
  /\ ReadSize(host, buffer, 0) = Zero64

\* C12: zero-field frames are legal.  A request of total_length = 8 and
\* num_fields = 0, once received in full, is decoded without reading outside
\* the buffer and construction returns with hasError() false and an empty
\* Record; sendResponse of an empty Record makes exactly two writes,
\* total_length = 8 and num_fields = 0.
C12_ZeroFields ==
  /\ (ZeroFieldRequest /\ pc # "decode") =>
       /\ Returned
       /\ ~hasError
       /\ ~oob_read
       /\ request_ = <<>>
  /\ (Sent /\ last_response = <<>>) =>
       writes = <<WriteCall(writeUInt64(host, U64(8)), U64(8)),
                  WriteCall(writeUInt64(host, U64(0)), U64(8))>>

\* A Connection that decoded a zero-field request sent a zero-field response.
C12_Witness ==
  /\ ZeroFieldRequest
  /\ Constructed
  /\ ~hasError
  /\ request_ = <<>>
  /\ Sent
  /\ last_response = <<>>
  /\ Len(writes) = 2

\* C13: buffer bounds during decode.  Every byte receiveRequest reads from
\* the receive buffer (the num_fields word, each size-table entry, each key)
\* lies inside [0, total_length), and so does every value slice it passes
\* to setField.
C13_ReadsInBounds ==
  /\ ~oob_read
  /\ \A i \in 1..Len(request_) : InPiece(request_[i].value)

\* One of the three throwing steps threw: a read of the length prefix or of
\* the body failed, or the length was oversized.
DecodeThrew ==
  \/ read_failed
  \/ /\ LengthRead
     /\ pc # "check_length"
     /\ AtLeastMax(request_data_length_)

\* C14: error state versus Record.  After construction hasError() is true
\* exactly when one of the three throwing steps threw, and false exactly when
\* the decode steps completed; whenever hasError() is true the Record is
\* empty.
C14_ErrorVersusRecord ==
  Returned =>
    /\ hasError <=> DecodeThrew
    /\ hasError => request_ = <<>>

\* C14 for the constructions that never read outside the buffer.
C14_InBounds == ~oob_read => C14_ErrorVersusRecord

\* C15: exact consumption.  The constructor never consumes more than the
\* 8 bytes of the length and the total_length bytes of the body; when it
\* returns without error it has consumed exactly 8 + total_length bytes, and
\* when it rejects the length as oversized exactly 8.
C15_ExactConsumption ==
  /\ ~LengthRead => pos = Len(code_mem) /\ pos < 8
  /\ (LengthRead /\ ~AtLeastMax(request_data_length_)) =>
       pos <= 8 + Nat64(request_data_length_)
  /\ (Returned /\ ~hasError) =>
       /\ LengthRead
       /\ ~AtLeastMax(request_data_length_)
       /\ pos = 8 + Nat64(request_data_length_)
  /\ (LengthRead /\ AtLeastMax(request_data_length_)) => pos = 8

\* A frame was decoded without error and a byte the peer sent after it is
\* still unread.
C15_Witness ==
  /\ Constructed
  /\ ~hasError
  /\ ~oob_read
  /\ pos = 8 + Nat64(request_data_length_)
  /\ Len(stream) = pos + 1

\* What the stream alone determines: the length its first 8 bytes give, the
\* body bytes that follow, and the Record an in-bounds decode builds of them.
StreamLength == receiveUInt64(host, SubSeq(stream, 1, 8))
StreamBody == SubSeq(stream, 9, 8 + Nat64(StreamLength))
StreamRecord ==
  LET field_sizes == DecodeSizes(host, StreamBody)
  IN  DecodeFields(StreamBody, field_sizes, Len(field_sizes))

\* Both receiveData calls have returned normally.
BodyReceived ==
  /\ LengthRead
  /\ ~AtLeastMax(request_data_length_)
  /\ ~read_failed
  /\ ~malloc_failed
  /\ pc \notin {"check_length", "receiveData"}

\* C16: chunking independence.  However read() splits the stream, the bytes
\* stored so far are the stream's bytes in order and without gaps;
\* receiveData(dst, n) has returned only once exactly n bytes are stored; and
\* when the stream is delivered completely the error flag and the Record are
\* those the stream alone determines.
C16_ChunkingIndependence ==
  /\ code_mem \o buffer = SubSeq(stream, 1, pos)
  /\ LengthRead =>
       /\ Len(code_mem) = 8
       /\ request_data_length_ = StreamLength
  /\ BodyReceived =>
       /\ U64(Len(buffer)) = request_data_length_
       /\ buffer = StreamBody
  /\ (Returned /\ ~read_failed /\ ~malloc_failed /\ ~oob_read) =>
       /\ hasError <=> Oversized(StreamLength)
       /\ ~hasError => request_ = StreamRecord
       /\ hasError => request_ = <<>>

\* A two-field frame was decoded after a read() that returned fewer bytes
\* than were asked for.
C16_Witness ==
  /\ Constructed
  /\ ~hasError
  /\ ~oob_read
  /\ short_read
  /\ Len(request_) = 2
  /\ request_ = StreamRecord

\* The constructor is still running.
Constructing ==
  pc \in {"receiveUInt64", "check_length", "receiveData", "decode"}

\* C17: termination of decode.  When every read() returns, the construction
\* ends: the constructor returns, with or without error, or the process is
\* ended while decoding.
C17_Terminates == <>(~Constructing)

\* The construction ended by a throw after reads that each stored fewer
\* bytes than were asked for.
C17_Witness ==
  /\ Returned
  /\ read_failed
  /\ short_read
  /\ pos > 8
  /\ U64(Len(buffer)) # request_data_length_

\* C18: buffer release.  Over a lifetime that ends with the destructor, the
\* receive buffer is freed exactly once if std::malloc ever returned it and
\* never otherwise; free, shutdown and close happen at most once each, at
\* destruction only: never while the constructor runs or in sendResponse.
C18_BufferRelease ==
  /\ pc # "destroyed" => (frees = 0 /\ shutdowns = 0 /\ closes = 0)
  /\ pc = "destroyed" =>
       /\ frees = (IF Allocated THEN 1 ELSE 0)
       /\ shutdowns <= 1
       /\ closes <= 1
       /\ request_data_ = "null"

\* A Connection decoded a request, sent a response and was destroyed: its
\* buffer was freed once.
C18_Witness ==
  /\ pc = "destroyed"
  /\ ~hasError
  /\ Len(request_) > 0
  /\ Sent
  /\ frees = 1
  /\ closes = 1

\* A step of sendResponse: the log of the last send changes.
SendStep ==
  <<last_response, writes, write_returns>>'
    # <<last_response, writes, write_returns>>

\* C19: sendResponse is permitted in every post-construction state, with or
\* without a decode error; it leaves the request Record, the error state,
\* the receive buffer and the socket's teardown untouched; and it makes all
\* 2 + 4 * num_fields write() calls whatever the earlier ones returned.
C19_SendFrame ==
  /\ [](Constructed => (ENABLED SendResponse /\ ENABLED SendStdResponse))
  /\ [](Sent =>
          /\ Len(writes) = 2 + 4 * Len(last_response)
          /\ Len(write_returns) = Len(writes))
  /\ [][SendStep =>
          /\ Constructed
          /\ UNCHANGED <<request_, error_message_, request_data_, buffer,
                         request_data_length_, pos, pc, frees, shutdowns,
                         closes>>]_vars

\* After a failed decode a two-field response was sent: the first write()
\* failed, the second was short, and the eight others were still made.
C19_Witness ==
  /\ Constructed
  /\ hasError
  /\ Sent
  /\ Len(last_response) = 2
  /\ write_returns[1] = -1
  /\ write_returns[2] = 3
  /\ Len(writes) = 10
  /\ \A i \in 3..10 : write_returns[i] = Nat64(writes[i].count)

====
